---- MODULE Spec2Model ----
(***************************************************************************)
(* Model of the discovery/research orchestration loop of agents.py:        *)
(* the rate limiter, the company registry (add_discovered_company), the    *)
(* CSV sink, discovery_node, research_node, should_continue and the        *)
(* workflow graph driven by run_enhanced_research.                         *)
(*                                                                         *)
(* Text is modelled as a sequence: a company name is a sequence of         *)
(* one-character strings (so that strip() and lower() are computed), a     *)
(* status message is a sequence of tokens (so that Python's `in` is a      *)
(* sub-sequence test: "DISCOVERY_ERROR" is <<"DISCOVERY","ERROR">>).       *)
(***************************************************************************)
EXTENDS Integers, Sequences, FiniteSets, TLC

VARIABLES
    pc,                      \* position of run_enhanced_research / the graph;
                             \* "discovery_invoke" and "research_invoke" are
                             \* inside discovery_agent.invoke (agents.py:431)
                             \* and research_agent.invoke (agents.py:490)
    runs,                    \* number of runs started in this process
    steps,                   \* graph supersteps executed in this run
    TARGET_COMPANIES,        \* global, agents.py:60
    discovered_companies,    \* global, agents.py:64 (the Registry)
    current_research_index,  \* global, agents.py:65 (the cursor)
    discovery_complete,      \* global, agents.py:66
    attempts,                \* local of discovery_node, agents.py:419: the
                             \* discovery_agent.invoke calls made so far;
                             \* 0 when discovery_node is not running
    last_message,            \* state["messages"][-1].content
    csv,                     \* rows of CSV_FILENAME, header first
    now,                     \* time.time()
    last_request_time,       \* global, agents.py:16
    request_count,           \* global, agents.py:18
    research_log,            \* history: indices research_agent.invoke ran for
    agent_reply,             \* local of discovery_node, agents.py:435: the
                             \* reply being inspected; <<>> otherwise
    grant_pending,           \* history: enhanced_rate_limit has granted and
                             \* no agent invocation has started since
    failed_writes,           \* history: cursor values whose CSV write failed
    discovery_size,          \* history: the Registry length when
                             \* discovery_node returned
    grants,                  \* history: grants of enhanced_rate_limit counted
                             \* by the rate-limiter specification
    recent_grants,           \* history: times of the grants that are at most
                             \* 60 before the latest one, the latest included
    burst_first,             \* history: time of the first grant of the burst
    burst_n,                 \* history: grants in the current burst of
                             \* back-to-back calls
    slow_calls,              \* history: calls made at a gap of SlowGaps
    call_time,               \* history: current_time of the latest call of
                             \* enhanced_rate_limit, agents.py:72
    count_reset_at,          \* history: when request_count was last set to
                             \* 0 (the start of the process at first)
    batch_pc,                \* position in process_csv_batch, rag.py:217
    df,                      \* its DataFrame: per input row the company and
                             \* the text of the analysis column
    row_index,               \* the loop variable index of rag.py:275
    out_file,                \* the output CSV: <<>> while unwritten, else
                             \* <<the rows last saved>>
    analysed,                \* history: rows analyze_single_company was
                             \* called for, in call order
    failed_rows              \* history: rows whose rag_chain.invoke raised

\* the history of the rate-limiter specification
rlhist == <<grants, recent_grants, burst_first, burst_n, slow_calls,
            call_time, count_reset_at>>

\* the state of the batch analysis of rag.py
batch == <<batch_pc, df, row_index, out_file, analysed, failed_rows>>

\* everything of the workflow but the clock and the rate limiter
workflow == <<pc, runs, steps, TARGET_COMPANIES, discovered_companies,
              current_research_index, discovery_complete, attempts,
              last_message, csv, research_log, agent_reply, grant_pending,
              failed_writes, discovery_size>>

vars == <<pc, runs, steps, TARGET_COMPANIES, discovered_companies,
          current_research_index, discovery_complete, attempts, last_message,
          csv, now, last_request_time, request_count, research_log,
          agent_reply, grant_pending, failed_writes, discovery_size, grants,
          recent_grants,
          burst_first, burst_n, slow_calls, call_time, count_reset_at,
          batch_pc, df, row_index, out_file, analysed, failed_rows>>

---------------------------------------------------------------------------
(* Program constants *)

MIN_REQUEST_INTERVAL == 3
MAX_REQUESTS_PER_MINUTE == 25
max_attempts == 10
SaveEvery == 10        \* rag.py:298, rows between two progress saves
recursion_limit == 50

(* Bounds of the model *)

MaxRuns == 2           \* runs of run_enhanced_research per process
MaxTarget == 2         \* largest finite target the user enters
StartClock == 1000     \* time.time() when the process starts
MaxGrants == 28        \* calls of enhanced_rate_limit in the rate-limiter
                       \* specification
MaxSlowCalls == 1      \* calls of the rate-limiter specification that come
                       \* at a gap of SlowGaps
MaxDirectRegistry == 2 \* largest Registry when research_node is called
                       \* directly
MaxRows == 11          \* most rows of the CSV given to process_csv_batch
MaxBigRegistry == 51   \* largest Registry of the step-ceiling specification

\* Targets are integers: a finite target is its count, and two codes stand
\* for the values that are not counts.
Inf == 0               \* float('inf'), agents.py:166
None == -1             \* TARGET_COMPANIES before get_user_requirements

Targets == (1..MaxTarget) \cup {Inf}

\* Names an agent may pass to add_discovered_company.
CandidateNames ==
    { <<>>, <<" ">>, <<"A">>, <<" ", "a", " ">>, <<"B">>, <<"C">> }

\* Texts a research agent may return as its report.
Reports == { "", "R1" }

\* Seconds that may pass between two readings of time.time(): the clock is
\* read only inside enhanced_rate_limit, so the time the agents take is
\* drawn when the next reading is made.
Gaps == { 0, 3 }

\* the same for the rate-limiter specification: a back-to-back call and a
\* call after the minute has passed, at any call
RLGaps == { 0, 61 }

\* a call inside the minimum interval and one inside the minute, for at most
\* MaxSlowCalls calls of a behaviour, at any position
SlowGaps == { 2, 30 }

\* Final message contents a discovery agent may return.
AgentReplies ==
    { <<"SUCCESS">>, <<"Target", "reached">>, <<"already", "exists">>,
      <<"done">> }

\* str(e) of an exception raised by an agent call.
ExcTexts ==
    { <<"timeout">>, <<"DISCOVERY", "COMPLETE">>, <<"RESEARCH", "PROGRESS">> }

---------------------------------------------------------------------------
(* Text helpers *)

\* needle in haystack
Contains(needle, hay) ==
    \E i \in 1..(Len(hay) - Len(needle) + 1) :
        SubSeq(hay, i, i + Len(needle) - 1) = needle

lowerChar(c) ==
    CASE c = "A" -> "a"
      [] c = "B" -> "b"
      [] c = "C" -> "c"
      [] OTHER -> c

\* str.lower()
lower(s) == [i \in 1..Len(s) |-> lowerChar(s[i])]

RECURSIVE lstrip(_)
lstrip(s) ==
    IF s # <<>> /\ Head(s) = " " THEN lstrip(Tail(s)) ELSE s

RECURSIVE rstrip(_)
rstrip(s) ==
    IF s # <<>> /\ s[Len(s)] = " " THEN rstrip(SubSeq(s, 1, Len(s) - 1)) ELSE s

\* str.strip()
strip(s) == rstrip(lstrip(s))

\* n >= target, where target may be float('inf')
GE(n, target) == target # Inf /\ n >= target

\* n < target
LT(n, target) == ~GE(n, target)

---------------------------------------------------------------------------
(* Rate limiter, agents.py:68-90 *)

\* enhanced_rate_limit() called at time t; the result is the clock after the
\* sleeps and the two globals.
enhanced_rate_limit_ShortWait(t, last, count) ==
    LET current_time == t
        count1 == IF current_time - last > 60 THEN 0 ELSE count
        capped == count1 >= MAX_REQUESTS_PER_MINUTE
        t2     == IF capped THEN t + 60 ELSE t
        count2 == IF capped THEN 0 ELSE count1
        t3     == IF current_time - last < MIN_REQUEST_INTERVAL - 1
                  THEN t2 + (MIN_REQUEST_INTERVAL - 1 - (current_time - last))
                  ELSE t2
    IN  [now |-> t3, last_request_time |-> t3, request_count |-> count2 + 1]

enhanced_rate_limit_NoMinWait(t, last, count) ==
    LET current_time == t
        count1 == IF current_time - last > 60 THEN 0 ELSE count
        capped == count1 >= MAX_REQUESTS_PER_MINUTE
        t2     == IF capped THEN t + 60 ELSE t
        count2 == IF capped THEN 0 ELSE count1
    IN  [now |-> t2, last_request_time |-> t2, request_count |-> count2 + 1]

enhanced_rate_limit_NoCapSleep(t, last, count) ==
    LET current_time == t
        count1 == IF current_time - last > 60 THEN 0 ELSE count
        capped == count1 >= MAX_REQUESTS_PER_MINUTE
        count2 == IF capped THEN 0 ELSE count1
        t3     == IF current_time - last < MIN_REQUEST_INTERVAL
                  THEN t + (MIN_REQUEST_INTERVAL - (current_time - last))
                  ELSE t
    IN  [now |-> t3, last_request_time |-> t3, request_count |-> count2 + 1]

enhanced_rate_limit(t, last, count) ==
    LET current_time == t
        count1 == IF current_time - last > 60 THEN 0 ELSE count
        capped == count1 >= MAX_REQUESTS_PER_MINUTE
        t2     == IF capped THEN t + 60 ELSE t
        count2 == IF capped THEN 0 ELSE count1
        t3     == IF current_time - last < MIN_REQUEST_INTERVAL
                  THEN t2 + (MIN_REQUEST_INTERVAL - (current_time - last))
                  ELSE t2
    IN  [now |-> t3, last_request_time |-> t3, request_count |-> count2 + 1]

---------------------------------------------------------------------------
(* Company registry, agents.py:200-236 *)

\* The tool's return texts.
NameRequired  == <<"Error", "Company", "name", "is", "required">>
TargetReached == <<"Target", "reached">>
AlreadyExists == <<"already", "exists">>
SuccessTarget == <<"SUCCESS", "Found", "target", "reached">>
Added         == <<"Successfully", "added", "company">>

\* IsDuplicate with the candidate compared as written, case kept
IsDuplicate_CaseSensitive(companies, company_name) ==
    \E i \in 1..Len(companies) :
        strip(companies[i].name) = strip(company_name)

\* the duplicate test of the loop at agents.py:213-216
IsDuplicate(companies, company_name) ==
    \E i \in 1..Len(companies) :
        strip(lower(companies[i].name)) = lower(strip(company_name))

\* add_discovered_company without the target test of agents.py:209-210
add_discovered_company_NoCap(companies, target, company_name) ==
    IF company_name = <<>> \/ strip(company_name) = <<>>
    THEN [companies |-> companies, result |-> NameRequired]
    ELSE IF IsDuplicate(companies, company_name)
    THEN [companies |-> companies, result |-> AlreadyExists]
    ELSE LET company_data == [name |-> strip(company_name),
                              detailed_report |-> ""]
             appended == Append(companies, company_data)
         IN  [companies |-> appended,
              result |-> IF GE(Len(appended), target)
                         THEN SuccessTarget ELSE Added]

\* add_discovered_company testing the target before the name
add_discovered_company_CapFirst(companies, target, company_name) ==
    IF GE(Len(companies), target)
    THEN [companies |-> companies, result |-> TargetReached]
    ELSE IF company_name = <<>> \/ strip(company_name) = <<>>
    THEN [companies |-> companies, result |-> NameRequired]
    ELSE IF IsDuplicate(companies, company_name)
    THEN [companies |-> companies, result |-> AlreadyExists]
    ELSE LET company_data == [name |-> strip(company_name),
                              detailed_report |-> ""]
             appended == Append(companies, company_data)
         IN  [companies |-> appended,
              result |-> IF GE(Len(appended), target)
                         THEN SuccessTarget ELSE Added]

\* add_discovered_company storing the name as offered, blanks kept
add_discovered_company_NoTrim(companies, target, company_name) ==
    IF company_name = <<>> \/ strip(company_name) = <<>>
    THEN [companies |-> companies, result |-> NameRequired]
    ELSE IF GE(Len(companies), target)
    THEN [companies |-> companies, result |-> TargetReached]
    ELSE IF IsDuplicate(companies, company_name)
    THEN [companies |-> companies, result |-> AlreadyExists]
    ELSE LET company_data == [name |-> company_name,
                              detailed_report |-> ""]
             appended == Append(companies, company_data)
         IN  [companies |-> appended,
              result |-> IF GE(Len(appended), target)
                         THEN SuccessTarget ELSE Added]

\* add_discovered_company: the registry after the call and the returned text
add_discovered_company(companies, target, company_name) ==
    IF company_name = <<>> \/ strip(company_name) = <<>>
    THEN [companies |-> companies, result |-> NameRequired]
    ELSE IF GE(Len(companies), target)
    THEN [companies |-> companies, result |-> TargetReached]
    ELSE IF IsDuplicate(companies, company_name)
    THEN [companies |-> companies, result |-> AlreadyExists]
    ELSE LET company_data == [name |-> strip(company_name),
                              detailed_report |-> ""]
             appended == Append(companies, company_data)
         IN  [companies |-> appended,
              result |-> IF GE(Len(appended), target)
                         THEN SuccessTarget ELSE Added]

---------------------------------------------------------------------------
(* CSV sink, agents.py:92-126 *)

Header == << <<"Company_Name">>, "Detailed_Report" >>

\* initialize_csv opening the file in mode 'a'
initialize_csv_Append(rows) == rows \o <<Header>>

\* initialize_csv, agents.py:92-102: the file opened in mode 'w' holds the
\* header row only, whatever it held before
initialize_csv(rows) == <<Header>>

\* add_company_to_csv writing the row twice
add_company_to_csv_TwoRows(rows, company_data, ok) ==
    [rows |-> IF ok
              THEN rows \o << <<company_data.name,
                                company_data.detailed_report>>,
                              <<company_data.name,
                                company_data.detailed_report>> >>
              ELSE rows,
     returned |-> ok,
     raised |-> FALSE]

\* add_company_to_csv letting the exception of a failed write out
add_company_to_csv_Propagates(rows, company_data, ok) ==
    [rows |-> IF ok
              THEN Append(rows, <<company_data.name,
                                  company_data.detailed_report>>)
              ELSE rows,
     returned |-> ok,
     raised |-> ~ok]

\* add_company_to_csv: the file after the call (one appended row, or nothing
\* when the write raises inside the try), the value returned, and whether
\* the call raises to its caller (never: the except of agents.py:124 returns)
add_company_to_csv(rows, company_data, ok) ==
    [rows |-> IF ok
              THEN Append(rows, <<company_data.name,
                                  company_data.detailed_report>>)
              ELSE rows,
     returned |-> ok,
     raised |-> FALSE]

---------------------------------------------------------------------------
(* Status markers, agents.py:409,452,461,477,507,514 *)

DISCOVERY_COMPLETE    == <<"DISCOVERY", "COMPLETE">>
DISCOVERY_ERROR(e)    == <<"DISCOVERY", "ERROR", "Discovery", "error">> \o e
RESEARCH_PROGRESS     == <<"RESEARCH", "PROGRESS">>
ALL_RESEARCH_COMPLETE == <<"ALL", "RESEARCH", "COMPLETE">>
RESEARCH_ERROR(e)     == <<"RESEARCH", "ERROR", "Research", "error">> \o e

END == "END"

\* should_continue continuing only while two records are pending
should_continue_OffByOne(message, index, companies) ==
    IF Contains(<<"ALL", "RESEARCH", "COMPLETE">>, message) THEN END
    ELSE IF Contains(<<"ERROR">>, message) THEN END
    ELSE IF Contains(<<"DISCOVERY", "COMPLETE">>, message) /\ Len(companies) > 0
    THEN "research"
    ELSE IF Contains(<<"RESEARCH", "PROGRESS">>, message)
            /\ index + 1 < Len(companies)
    THEN "research"
    ELSE END

\* should_continue without the non-empty test of agents.py:535
should_continue_NoEmptyTest(message, index, companies) ==
    IF Contains(<<"ALL", "RESEARCH", "COMPLETE">>, message) THEN END
    ELSE IF Contains(<<"ERROR">>, message) THEN END
    ELSE IF Contains(<<"DISCOVERY", "COMPLETE">>, message) THEN "research"
    ELSE IF Contains(<<"RESEARCH", "PROGRESS">>, message)
            /\ index < Len(companies)
    THEN "research"
    ELSE END

\* should_continue with the error test made after the two continue tests
should_continue_ErrorLast(message, index, companies) ==
    IF Contains(<<"ALL", "RESEARCH", "COMPLETE">>, message) THEN END
    ELSE IF Contains(<<"DISCOVERY", "COMPLETE">>, message) /\ Len(companies) > 0
    THEN "research"
    ELSE IF Contains(<<"RESEARCH", "PROGRESS">>, message)
            /\ index < Len(companies)
    THEN "research"
    ELSE IF Contains(<<"ERROR">>, message) THEN END
    ELSE END

\* should_continue without the cursor test of agents.py:540
should_continue_NoCursorTest(message, index, companies) ==
    IF Contains(<<"ALL", "RESEARCH", "COMPLETE">>, message) THEN END
    ELSE IF Contains(<<"ERROR">>, message) THEN END
    ELSE IF Contains(<<"DISCOVERY", "COMPLETE">>, message) /\ Len(companies) > 0
    THEN "research"
    ELSE IF Contains(<<"RESEARCH", "PROGRESS">>, message) THEN "research"
    ELSE END

\* should_continue going on while the cursor is at most the Registry length
should_continue_CursorLE(message, index, companies) ==
    IF Contains(<<"ALL", "RESEARCH", "COMPLETE">>, message) THEN END
    ELSE IF Contains(<<"ERROR">>, message) THEN END
    ELSE IF Contains(<<"DISCOVERY", "COMPLETE">>, message) /\ Len(companies) > 0
    THEN "research"
    ELSE IF Contains(<<"RESEARCH", "PROGRESS">>, message)
            /\ index <= Len(companies)
    THEN "research"
    ELSE END

\* should_continue, agents.py:518-551
should_continue(message, index, companies) ==
    IF Contains(<<"ALL", "RESEARCH", "COMPLETE">>, message) THEN END
    ELSE IF Contains(<<"ERROR">>, message) THEN END
    ELSE IF Contains(<<"DISCOVERY", "COMPLETE">>, message) /\ Len(companies) > 0
    THEN "research"
    ELSE IF Contains(<<"RESEARCH", "PROGRESS">>, message)
            /\ index < Len(companies)
    THEN "research"
    ELSE IF index >= Len(companies) /\ Len(companies) > 0 THEN END
    ELSE END

\* the loop test without the attempt budget
LoopCondition_NoBudget(companies, target, n) ==
    LT(Len(companies), target)

\* the loop test of discovery_node, agents.py:421
LoopCondition(companies, target, n) ==
    LT(Len(companies), target) /\ n < max_attempts

\* the break on the agent's reply, agents.py:436-437
ReplyBreaks(reply) ==
    Contains(<<"Target", "reached">>, reply) \/ Contains(<<"SUCCESS">>, reply)

\* the cursor left where it is
NextIndex_Stay(index) == index

\* the cursor advanced by two
NextIndex_Skip(index) == index + 2

\* the cursor after a researched record, agents.py:504
NextIndex(index) == index + 1

---------------------------------------------------------------------------
(* The workflow graph, agents.py:570-609 *)

GraphEdge_BackToDiscovery(decision) ==
    IF decision = END THEN "end" ELSE "discovery"

\* the path map of both conditional edges, agents.py:582-585 and 590-593
GraphEdge(decision) == IF decision = END THEN "end" ELSE "research"

CeilingReached_Never(n) == FALSE

\* graph.invoke stops with GraphRecursionError when a node would run after
\* recursion_limit node steps, agents.py:609 (the most steps any counting of
\* the supersteps allows)
CeilingReached(n) == n >= recursion_limit

---------------------------------------------------------------------------
(* Initial state: the module globals before run_enhanced_research is called *)

Init ==
    /\ pc = "idle"
    /\ runs = 0
    /\ steps = 0
    /\ TARGET_COMPANIES = None
    /\ discovered_companies = <<>>
    /\ current_research_index = 0
    /\ discovery_complete = FALSE
    /\ attempts = 0
    /\ last_message = <<>>
    /\ csv = <<>>
    /\ now = StartClock
    /\ last_request_time = 0
    /\ request_count = 0
    /\ research_log = <<>>
    /\ agent_reply = <<>>
    /\ grant_pending = FALSE
    /\ failed_writes = {}
    /\ discovery_size = 0
    /\ grants = 0
    /\ recent_grants = <<>>
    /\ burst_first = 0
    /\ burst_n = 0
    /\ slow_calls = 0
    /\ call_time = StartClock
    /\ count_reset_at = StartClock
    /\ batch_pc = "call"
    /\ df = <<>>
    /\ row_index = 0
    /\ out_file = <<>>
    /\ analysed = <<>>
    /\ failed_rows = {}

\* run_enhanced_research up to graph.invoke, agents.py:553-609: reset of the
\* globals, get_user_requirements, initialize_csv, START -> discovery
StartRun ==
    /\ pc = "idle"
    /\ runs < MaxRuns
    /\ \E target \in Targets : TARGET_COMPANIES' = target
    /\ discovered_companies' = <<>>
    /\ current_research_index' = 0
    /\ discovery_complete' = FALSE
    /\ csv' = initialize_csv(csv)
    /\ last_message' = <<"Starting", "research", "workflow">>
    /\ runs' = runs + 1
    /\ steps' = 0
    /\ attempts' = 0
    /\ research_log' = <<>>
    /\ grant_pending' = FALSE
    /\ failed_writes' = {}
    /\ discovery_size' = 0
    /\ pc' = "discovery"
    /\ UNCHANGED <<now, last_request_time, request_count, agent_reply>>
    /\ UNCHANGED rlhist
    /\ UNCHANGED batch

\* discovery_node leaves its loop, agents.py:447-453
DiscoveryExit ==
    /\ attempts' = 0
    /\ agent_reply' = <<>>
    /\ discovery_complete' = TRUE
    /\ last_message' = DISCOVERY_COMPLETE
    /\ discovery_size' = Len(discovered_companies)
    /\ pc' = "after_discovery"

\* discovery_node up to the loop, agents.py:396-419
DiscoveryEnter ==
    /\ pc = "discovery"
    /\ steps' = steps + 1
    /\ IF GE(Len(discovered_companies), TARGET_COMPANIES)
       THEN /\ discovery_complete' = TRUE
            /\ last_message' = DISCOVERY_COMPLETE
            /\ discovery_size' = Len(discovered_companies)
            /\ pc' = "after_discovery"
            /\ UNCHANGED <<now, last_request_time, request_count, attempts,
                           grant_pending>>
       ELSE \E gap \in Gaps :
            LET rl == enhanced_rate_limit(now + gap, last_request_time,
                                          request_count)
            IN  /\ now' = rl.now
                /\ last_request_time' = rl.last_request_time
                /\ request_count' = rl.request_count
                /\ grant_pending' = TRUE
                /\ attempts' = 0
                /\ pc' = "discovery_loop"
                /\ UNCHANGED <<discovery_complete, last_message,
                               discovery_size>>
    /\ UNCHANGED <<runs, TARGET_COMPANIES, discovered_companies,
                   current_research_index, csv, research_log, agent_reply,
                   failed_writes>>
    /\ UNCHANGED rlhist
    /\ UNCHANGED batch

\* the loop test of discovery_node and the start of an iteration,
\* agents.py:421-431
DiscoveryLoop ==
    /\ pc = "discovery_loop"
    /\ IF LoopCondition(discovered_companies, TARGET_COMPANIES, attempts)
       THEN /\ attempts' = attempts + 1
            /\ pc' = "discovery_invoke"
            /\ grant_pending' = FALSE
            /\ UNCHANGED <<discovery_complete, last_message, agent_reply,
                           discovery_size>>
       ELSE /\ DiscoveryExit
            /\ UNCHANGED grant_pending
    /\ UNCHANGED <<runs, steps, TARGET_COMPANIES, discovered_companies,
                   current_research_index, csv, now, last_request_time,
                   request_count, research_log, failed_writes>>
    /\ UNCHANGED rlhist
    /\ UNCHANGED batch

\* a call of the add_discovered_company tool by the agent that is running:
\* the discovery agent (agents.py:247) or the research agent (agents.py:316)
ToolAdd ==
    /\ pc \in {"discovery_invoke", "research_invoke"}
    /\ \E company_name \in CandidateNames :
         discovered_companies' =
             add_discovered_company(discovered_companies, TARGET_COMPANIES,
                                    company_name).companies
    /\ UNCHANGED <<pc, runs, steps, TARGET_COMPANIES, current_research_index,
                   discovery_complete, attempts, last_message, csv, now,
                   last_request_time, request_count, research_log,
                   agent_reply, grant_pending, failed_writes>>
    /\ UNCHANGED discovery_size
    /\ UNCHANGED rlhist
    /\ UNCHANGED batch

\* discovery_agent.invoke returns its final message, agents.py:431-435
DiscoveryReturn ==
    /\ pc = "discovery_invoke"
    /\ \E reply \in AgentReplies : agent_reply' = reply
    /\ pc' = "discovery_check"
    /\ UNCHANGED <<runs, steps, TARGET_COMPANIES, discovered_companies,
                   current_research_index, discovery_complete, attempts,
                   last_message, csv, now, last_request_time, request_count,
                   research_log, grant_pending, failed_writes>>
    /\ UNCHANGED discovery_size
    /\ UNCHANGED rlhist
    /\ UNCHANGED batch

\* the rest of the iteration: the tests on the reply, agents.py:436-445
DiscoveryCheck ==
    /\ pc = "discovery_check"
    /\ IF ReplyBreaks(agent_reply)
       THEN DiscoveryExit
       ELSE IF Contains(<<"already", "exists">>, agent_reply)
       THEN /\ pc' = "discovery_loop"
            /\ agent_reply' = <<>>
            /\ UNCHANGED <<attempts, discovery_complete, last_message,
                           discovery_size>>
       ELSE IF attempts >= max_attempts
       THEN DiscoveryExit
       ELSE /\ pc' = "discovery_loop"
            /\ agent_reply' = <<>>
            /\ UNCHANGED <<attempts, discovery_complete, last_message,
                           discovery_size>>
    /\ UNCHANGED <<runs, steps, TARGET_COMPANIES, discovered_companies,
                   current_research_index, csv, now, last_request_time,
                   request_count, research_log, grant_pending, failed_writes>>
    /\ UNCHANGED rlhist
    /\ UNCHANGED batch

\* discovery_agent.invoke raises, agents.py:455-462
DiscoveryRaise ==
    /\ pc = "discovery_invoke"
    /\ \E e \in ExcTexts : last_message' = DISCOVERY_ERROR(e)
    /\ attempts' = 0
    /\ discovery_size' = Len(discovered_companies)
    /\ pc' = "after_discovery"
    /\ UNCHANGED <<runs, steps, TARGET_COMPANIES, discovered_companies,
                   current_research_index, discovery_complete, csv, now,
                   last_request_time, request_count, research_log,
                   agent_reply, grant_pending, failed_writes>>
    /\ UNCHANGED rlhist
    /\ UNCHANGED batch

\* the conditional edge after a node, agents.py:579-594, and the step ceiling
\* of graph.invoke, agents.py:609
Route(from) ==
    /\ pc = from
    /\ LET decision == should_continue(last_message, current_research_index,
                                       discovered_companies)
           target == GraphEdge(decision)
       IN  pc' = IF target = "end" THEN "end"
                 ELSE IF CeilingReached(steps) THEN "aborted"
                 ELSE target
    /\ UNCHANGED <<runs, steps, TARGET_COMPANIES, discovered_companies,
                   current_research_index, discovery_complete, attempts,
                   last_message, csv, now, last_request_time, request_count,
                   research_log, agent_reply, grant_pending, failed_writes>>
    /\ UNCHANGED discovery_size
    /\ UNCHANGED rlhist
    /\ UNCHANGED batch

AfterDiscovery == Route("after_discovery")

AfterResearch == Route("after_research")

\* research_node up to research_agent.invoke, agents.py:463-490
ResearchEnter ==
    /\ pc = "research"
    /\ steps' = steps + 1
    /\ \E gap \in Gaps :
         LET rl == enhanced_rate_limit(now + gap, last_request_time,
                                       request_count)
         IN  /\ now' = rl.now
             /\ last_request_time' = rl.last_request_time
             /\ request_count' = rl.request_count
    /\ IF current_research_index >= Len(discovered_companies)
       THEN /\ last_message' = ALL_RESEARCH_COMPLETE
            /\ pc' = "after_research"
            /\ grant_pending' = TRUE
            /\ UNCHANGED research_log
       ELSE /\ research_log' = Append(research_log, current_research_index)
            /\ pc' = "research_invoke"
            /\ grant_pending' = FALSE
            /\ UNCHANGED last_message
    /\ UNCHANGED <<runs, TARGET_COMPANIES, discovered_companies,
                   current_research_index, discovery_complete, attempts, csv,
                   agent_reply, failed_writes>>
    /\ UNCHANGED discovery_size
    /\ UNCHANGED rlhist
    /\ UNCHANGED batch

\* research_agent.invoke returns: the rest of research_node, agents.py:492-515,
\* for a report among reports and a CSV write that succeeds or fails as oks
\* allows (agents.py:124-126)
ResearchReturnWith(reports, oks) ==
    /\ pc = "research_invoke"
    /\ \E research_report \in reports, ok \in oks :
         LET k == current_research_index + 1
             current_company ==
                 [discovered_companies[k] EXCEPT
                     !.detailed_report = research_report]
             written == add_company_to_csv(csv, current_company, ok)
         IN  /\ discovered_companies' =
                    [discovered_companies EXCEPT ![k] = current_company]
             /\ csv' = written.rows
             /\ failed_writes' = IF ok THEN failed_writes
                                 ELSE failed_writes \cup
                                          {current_research_index}
             /\ IF written.raised
                THEN /\ \E e \in ExcTexts : last_message' = RESEARCH_ERROR(e)
                     /\ UNCHANGED current_research_index
                ELSE /\ current_research_index' =
                            NextIndex(current_research_index)
                     /\ last_message' = RESEARCH_PROGRESS
    /\ pc' = "after_research"
    /\ UNCHANGED <<runs, steps, TARGET_COMPANIES, discovery_complete, attempts,
                   now, last_request_time, request_count, research_log,
                   agent_reply, grant_pending>>
    /\ UNCHANGED discovery_size
    /\ UNCHANGED rlhist
    /\ UNCHANGED batch

ResearchReturn == ResearchReturnWith(Reports, BOOLEAN)

\* research_agent.invoke raises, agents.py:510-515
ResearchRaise ==
    /\ pc = "research_invoke"
    /\ \E e \in ExcTexts : last_message' = RESEARCH_ERROR(e)
    /\ pc' = "after_research"
    /\ UNCHANGED <<runs, steps, TARGET_COMPANIES, discovered_companies,
                   current_research_index, discovery_complete, attempts, csv,
                   now, last_request_time, request_count, research_log,
                   agent_reply, grant_pending, failed_writes>>
    /\ UNCHANGED discovery_size
    /\ UNCHANGED rlhist
    /\ UNCHANGED batch

\* the end of run_enhanced_research, agents.py:611-643: the finally block
FinishRun ==
    /\ pc \in {"end", "aborted"}
    /\ discovered_companies' = <<>>
    /\ current_research_index' = 0
    /\ discovery_complete' = FALSE
    /\ pc' = "idle"
    /\ UNCHANGED <<runs, steps, TARGET_COMPANIES, attempts, last_message, csv,
                   now, last_request_time, request_count, research_log,
                   agent_reply, grant_pending, failed_writes>>
    /\ UNCHANGED discovery_size
    /\ UNCHANGED rlhist
    /\ UNCHANGED batch

Next ==
    \/ StartRun
    \/ DiscoveryEnter
    \/ DiscoveryLoop
    \/ ToolAdd
    \/ DiscoveryReturn
    \/ DiscoveryCheck
    \/ DiscoveryRaise
    \/ AfterDiscovery
    \/ ResearchEnter
    \/ ResearchReturn
    \/ ResearchRaise
    \/ AfterResearch
    \/ FinishRun

Spec == Init /\ [][Next]_vars

\* one call of enhanced_rate_limit, agents.py:68-90, made gap time units after
\* the previous call returned (after the start of the process for the first)
RLCall ==
    /\ grants < MaxGrants
    /\ \E gap \in RLGaps \cup (IF slow_calls < MaxSlowCalls THEN SlowGaps
                                                            ELSE {}) :
         LET rl == enhanced_rate_limit(now + gap, last_request_time,
                                       request_count)
             granted == rl.last_request_time
             back_to_back == grants >= 1 /\ gap = 0
             idle == (now + gap) - last_request_time > 60
             capped == (IF idle THEN 0 ELSE request_count)
                           >= MAX_REQUESTS_PER_MINUTE
         IN  /\ now' = rl.now
             /\ last_request_time' = granted
             /\ request_count' = rl.request_count
             /\ grants' = grants + 1
             /\ recent_grants' =
                    Append(SelectSeq(recent_grants,
                                     LAMBDA g : granted - g <= 60), granted)
             /\ burst_first' = IF back_to_back THEN burst_first ELSE granted
             /\ burst_n' = IF back_to_back THEN burst_n + 1 ELSE 1
             /\ slow_calls' = IF gap \in SlowGaps THEN slow_calls + 1
                              ELSE slow_calls
             /\ call_time' = now + gap
             /\ count_reset_at' = IF capped THEN now + gap + 60
                                  ELSE IF idle THEN now + gap
                                  ELSE count_reset_at
    /\ UNCHANGED workflow
    /\ UNCHANGED batch

\* the rate limiter alone, called again and again from the start of the
\* process
SpecRL == Init /\ [][RLCall]_vars

\* the i-th of the distinct names of a large Registry
BigName(i) == [j \in 1..i |-> "A"]

\* a run with an unlimited target whose Discovery step has completed with
\* between MaxBigRegistry - 3 and MaxBigRegistry records: the state
\* discovery_node leaves, agents.py:447-453, after one grant
InitCeiling ==
    /\ pc = "after_discovery"
    /\ runs = 1
    /\ steps = 1
    /\ TARGET_COMPANIES = Inf
    /\ \E n \in (MaxBigRegistry - 3)..MaxBigRegistry :
         discovered_companies =
             [i \in 1..n |-> [name |-> BigName(i), detailed_report |-> ""]]
    /\ current_research_index = 0
    /\ discovery_complete = TRUE
    /\ attempts = 0
    /\ last_message = DISCOVERY_COMPLETE
    /\ csv = initialize_csv(<<>>)
    /\ now = StartClock
    /\ last_request_time = StartClock
    /\ request_count = 1
    /\ research_log = <<>>
    /\ agent_reply = <<>>
    /\ grant_pending = FALSE
    /\ failed_writes = {}
    /\ discovery_size = Len(discovered_companies)
    /\ grants = 0
    /\ recent_grants = <<>>
    /\ burst_first = 0
    /\ burst_n = 0
    /\ slow_calls = 0
    /\ call_time = StartClock
    /\ count_reset_at = StartClock
    /\ batch_pc = "call"
    /\ df = <<>>
    /\ row_index = 0
    /\ out_file = <<>>
    /\ analysed = <<>>
    /\ failed_rows = {}

\* research_node after the agent returned, with a report and a CSV write
\* that succeeds
ResearchReturnWritten == ResearchReturnWith({"R1"}, {TRUE})

NextCeiling ==
    \/ AfterDiscovery
    \/ ResearchEnter
    \/ ToolAdd
    \/ ResearchReturnWritten
    \/ ResearchRaise
    \/ AfterResearch
    \/ FinishRun

\* the research phase of a run over a Registry as long as the step ceiling
SpecCeiling == InitCeiling /\ [][NextCeiling]_vars

\* research_node, agents.py:463, called in any state its caller may hold:
\* a Registry of up to MaxDirectRegistry records of which the first c are
\* researched and written, the cursor c anywhere from 0 to the Registry
\* length, that length included
InitResearchNode ==
    /\ pc = "research"
    /\ runs = 1
    /\ TARGET_COMPANIES = Inf
    /\ \E n \in 0..MaxDirectRegistry : \E c \in 0..n :
         /\ discovered_companies =
                [i \in 1..n |->
                    [name |-> BigName(i),
                     detailed_report |-> IF i <= c THEN "R1" ELSE ""]]
         /\ current_research_index = c
         /\ steps = 1 + c
         /\ csv = <<Header>> \o [i \in 1..c |-> <<BigName(i), "R1">>]
         /\ research_log = [i \in 1..c |-> i - 1]
         /\ last_message = IF c = 0 THEN DISCOVERY_COMPLETE
                           ELSE RESEARCH_PROGRESS
         /\ now = StartClock + c * MIN_REQUEST_INTERVAL
         /\ last_request_time = StartClock + c * MIN_REQUEST_INTERVAL
         /\ request_count = 1 + c
    /\ discovery_complete = TRUE
    /\ attempts = 0
    /\ agent_reply = <<>>
    /\ grant_pending = FALSE
    /\ failed_writes = {}
    /\ discovery_size = Len(discovered_companies)
    /\ grants = 0
    /\ recent_grants = <<>>
    /\ burst_first = 0
    /\ burst_n = 0
    /\ slow_calls = 0
    /\ call_time = StartClock
    /\ count_reset_at = StartClock
    /\ batch_pc = "call"
    /\ df = <<>>
    /\ row_index = 0
    /\ out_file = <<>>
    /\ analysed = <<>>
    /\ failed_rows = {}

NextResearchNode ==
    \/ ResearchEnter
    \/ ToolAdd
    \/ ResearchReturn
    \/ ResearchRaise
    \/ AfterResearch
    \/ FinishRun

\* research_node called directly, then the workflow from there
SpecResearchNode == InitResearchNode /\ [][NextResearchNode]_vars

---------------------------------------------------------------------------
(* Batch partnership analysis, rag.py:205-315 *)

\* what rag_chain.invoke does for a row: it returns a result text or raises
\* with a message
ChainOutcomes ==
    { [raises |-> FALSE, text |-> <<"High", "potential">>],
      [raises |-> TRUE,  text |-> <<"timeout">>] }

\* the analysis column of a CSV that already had one
OldAnalysis == <<"old", "analysis">>

\* analyze_single_company with no except clause
analyze_single_company_Propagates(outcome) ==
    [result |-> outcome.text, raised |-> outcome.raises]

\* analyze_single_company, rag.py:205-215: the text it returns, and whether
\* it raises to its caller (never: except Exception returns the text)
analyze_single_company(outcome) ==
    [result |-> IF outcome.raises
                THEN <<"Analysis", "failed">> \o outcome.text
                ELSE outcome.text,
     raised |-> FALSE]

\* the progress-save test of rag.py:298, for the row label i
SaveDue(i) == (i + 1) % SaveEvery = 0

\* df.to_csv inside try/except, rag.py:299-303 and 306-315: the file holds
\* the frame when the write succeeds and is left alone when it raises
to_csv(file, frame, ok) == IF ok THEN <<frame>> ELSE file

\* process_csv_batch is called on a CSV of up to MaxRows rows, with or
\* without an analysis column already in it
InitBatch ==
    /\ pc = "idle"
    /\ runs = 0
    /\ steps = 0
    /\ TARGET_COMPANIES = None
    /\ discovered_companies = <<>>
    /\ current_research_index = 0
    /\ discovery_complete = FALSE
    /\ attempts = 0
    /\ last_message = <<>>
    /\ csv = <<>>
    /\ now = StartClock
    /\ last_request_time = 0
    /\ request_count = 0
    /\ research_log = <<>>
    /\ agent_reply = <<>>
    /\ grant_pending = FALSE
    /\ failed_writes = {}
    /\ discovery_size = 0
    /\ grants = 0
    /\ recent_grants = <<>>
    /\ burst_first = 0
    /\ burst_n = 0
    /\ slow_calls = 0
    /\ call_time = StartClock
    /\ count_reset_at = StartClock
    /\ batch_pc = "call"
    /\ \E n \in 0..MaxRows : \E old \in {<<>>, OldAnalysis} :
         df = [i \in 1..n |-> [company |-> i, analysis |-> old]]
    /\ row_index = 0
    /\ out_file = <<>>
    /\ analysed = <<>>
    /\ failed_rows = {}

\* process_csv_batch up to the loop, rag.py:217-273: it returns None when
\* the file is missing or unreadable, no text column is found or the RAG
\* system cannot be set up; otherwise the analysis column is set to ""
BatchStart ==
    /\ batch_pc = "call"
    /\ \E setup_ok \in BOOLEAN :
         IF setup_ok
         THEN /\ df' = [i \in 1..Len(df) |-> [df[i] EXCEPT !.analysis = <<>>]]
              /\ batch_pc' = "loop"
         ELSE /\ batch_pc' = "returned_none"
              /\ UNCHANGED df
    /\ UNCHANGED <<row_index, out_file, analysed, failed_rows>>
    /\ UNCHANGED <<workflow, rlhist, now, last_request_time, request_count>>

\* one iteration of the loop, rag.py:275-303
BatchIterate ==
    /\ batch_pc = "loop"
    /\ row_index < Len(df)
    /\ \E outcome \in ChainOutcomes, save_ok \in BOOLEAN :
         LET analysis == analyze_single_company(outcome)
             stored == [df EXCEPT ![row_index + 1].analysis = analysis.result]
         IN  /\ analysed' = Append(analysed, row_index)
             /\ failed_rows' = IF outcome.raises
                               THEN failed_rows \cup {row_index}
                               ELSE failed_rows
             /\ IF analysis.raised
                THEN /\ batch_pc' = "raised"
                     /\ UNCHANGED <<df, row_index, out_file>>
                ELSE /\ df' = stored
                     /\ out_file' = IF SaveDue(row_index)
                                    THEN to_csv(out_file, stored, save_ok)
                                    ELSE out_file
                     /\ row_index' = row_index + 1
                     /\ UNCHANGED batch_pc
    /\ UNCHANGED <<workflow, rlhist, now, last_request_time, request_count>>

\* the final save and the return of the frame, rag.py:305-315
BatchFinalSave ==
    /\ batch_pc = "loop"
    /\ row_index >= Len(df)
    /\ \E save_ok \in BOOLEAN : out_file' = to_csv(out_file, df, save_ok)
    /\ batch_pc' = "returned_df"
    /\ UNCHANGED <<df, row_index, analysed, failed_rows>>
    /\ UNCHANGED <<workflow, rlhist, now, last_request_time, request_count>>

NextBatch ==
    \/ BatchStart
    \/ BatchIterate
    \/ BatchFinalSave

\* one call of process_csv_batch
SpecBatch == InitBatch /\ [][NextBatch]_vars

TypeOK ==
    /\ pc \in {"idle", "discovery", "discovery_loop", "discovery_invoke",
               "discovery_check", "after_discovery", "research",
               "research_invoke", "after_research", "end", "aborted"}
    /\ current_research_index \in Nat

---------------------------------------------------------------------------
(* Properties *)

InInvoke == pc \in {"discovery_invoke", "research_invoke"}

FiniteTarget == TARGET_COMPANIES \notin {Inf, None}

\* the name as the Registry compares it: trimmed, then lower-cased
Folded(name) == lower(strip(name))

\* C1: the Registry never holds two records whose names are equal after
\* trimming and case-folding, whatever names the holders of the tool offer.
C1_NoDuplicateNames ==
    \A i, j \in 1..Len(discovered_companies) :
        i # j => Folded(discovered_companies[i].name)
                     # Folded(discovered_companies[j].name)

\* C1 witness: an agent is running with a record stored, and a candidate
\* that differs from every stored name only by case or blanks is refused.
C1_Witness ==
    /\ InInvoke
    /\ Len(discovered_companies) >= 1
    /\ LT(Len(discovered_companies), TARGET_COMPANIES)
    /\ \E c \in CandidateNames :
         /\ \A i \in 1..Len(discovered_companies) :
                discovered_companies[i].name # c
         /\ add_discovered_company(discovered_companies, TARGET_COMPANIES,
                                   c).result = AlreadyExists

\* C2: with a finite target the Registry never holds more than target_count
\* records, in any state, also inside an agent invocation that adds several.
C2_SizeWithinTarget ==
    FiniteTarget => Len(discovered_companies) <= TARGET_COMPANIES

\* C2 witness: the first discovery invocation has filled a target of two and
\* is still running, so a further add is refused.
C2_Witness ==
    /\ pc = "discovery_invoke"
    /\ attempts = 1
    /\ TARGET_COMPANIES = 2
    /\ Len(discovered_companies) = 2
    /\ \A c \in CandidateNames :
         add_discovered_company(discovered_companies, TARGET_COMPANIES,
                                c).companies = discovered_companies

\* C3: discovery_node invokes the agent at most max_attempts times (every
\* invocation is counted by attempts, which never passes 10), and when the
\* loop does not invoke the agent again it emits its status marker.
C3_DiscoveryBounded ==
    [][ /\ attempts' <= max_attempts
        /\ (pc = "discovery_loop" /\ pc' = "discovery_invoke")
               => attempts' = attempts + 1
        /\ (pc = "discovery_loop" /\ pc' # "discovery_invoke")
               => (pc' = "after_discovery" /\ last_message' = DISCOVERY_COMPLETE)
        /\ (pc = "discovery_check" /\ pc' # "discovery_loop")
               => (pc' = "after_discovery" /\ last_message' = DISCOVERY_COMPLETE)
        /\ (pc = "discovery_invoke" /\ pc' \notin {"discovery_invoke",
                                                   "discovery_check"})
               => (pc' = "after_discovery"
                   /\ last_message' \in
                        {DISCOVERY_ERROR(e) : e \in ExcTexts})
      ]_vars

\* C3 witness: the tenth invocation has returned "already exists" with nothing
\* registered; the loop test is about to end the phase.
C3_Witness ==
    /\ pc = "discovery_loop"
    /\ attempts = max_attempts
    /\ discovered_companies = <<>>

InRun == pc # "idle"

\* the data rows of the CSV file, the header left out
Rows == IF csv = <<>> THEN <<>> ELSE Tail(csv)

\* the row add_company_to_csv writes for a record
RowOf(company) == <<company.name, company.detailed_report>>

IsErrorMarker(message) ==
    /\ Len(message) >= 2
    /\ SubSeq(message, 1, 2) \in {<<"DISCOVERY", "ERROR">>,
                                  <<"RESEARCH", "ERROR">>}

\* C4: at every point of a run, for every N, the Nth row of the sink is the
\* row of the Nth record of the Registry.
C4_RowsFollowRegistry ==
    InRun =>
        \A n \in 1..Len(Rows) :
            /\ n <= Len(discovered_companies)
            /\ Rows[n] = RowOf(discovered_companies[n])

\* C5: the cursor never decreases within a run and always satisfies
\* 0 <= cursor <= Registry length.
C5_CursorMonotoneInRange ==
    [][ /\ 0 <= current_research_index'
        /\ current_research_index' <= Len(discovered_companies')
        /\ (pc \notin {"idle", "end", "aborted"})
               => current_research_index' >= current_research_index
      ]_vars

\* C5 witness: two records were researched and the cursor stands at the
\* Registry length.
C5_Witness ==
    /\ pc = "after_research"
    /\ current_research_index = 2
    /\ Len(discovered_companies) = 2

\* C6: when the workflow is at End after the research node ran and the
\* latest marker is not an error marker, the cursor equals the Registry size.
C6_EndMeansAllResearched ==
    (pc = "end" /\ steps >= 2 /\ ~IsErrorMarker(last_message))
        => current_research_index = Len(discovered_companies)

\* C6 witness: End reached after researching a Registry that grew to three
\* records.
C6_Witness ==
    /\ pc = "end"
    /\ steps >= 2
    /\ ~IsErrorMarker(last_message)
    /\ Len(discovered_companies) = 3
    /\ current_research_index = 3

\* C7: when the research agent has raised on the record at index k, exactly
\* k rows are in the sink (records 0..k-1), the marker is RESEARCH_ERROR, the
\* cursor is k, record k has no report and the agent ran once for record k.
C7_RaiseLeavesPrefix ==
    (pc \in {"after_research", "end"}
     /\ Len(last_message) >= 2
     /\ SubSeq(last_message, 1, 2) = <<"RESEARCH", "ERROR">>)
        => LET k == current_research_index
           IN  /\ research_log # <<>>
               /\ research_log[Len(research_log)] = k
               /\ Cardinality({i \in 1..Len(research_log) :
                                   research_log[i] = k}) = 1
               /\ k < Len(discovered_companies)
               /\ discovered_companies[k + 1].detailed_report = ""
               /\ Len(Rows) = k
               /\ \A n \in 1..Len(Rows) :
                      Rows[n] = RowOf(discovered_companies[n])

\* C8: out of Discovery the workflow goes to Research exactly when the marker
\* is DISCOVERY_COMPLETE and the Registry is non-empty, and to End otherwise;
\* a run whose only step was Discovery never invoked the research agent.
C8_DiscoveryEdge ==
    [][ /\ (pc = "after_discovery")
               => /\ pc' \in {"research", "end"}
                  /\ (pc' = "research")
                        <=> (last_message = DISCOVERY_COMPLETE
                             /\ Len(discovered_companies) > 0)
        /\ (pc' = "end" /\ steps' = 1) => research_log' = <<>>
      ]_vars

\* C8 witness: Discovery completed with nothing registered and the workflow
\* is at End after its single step.
C8_Witness ==
    /\ pc = "end"
    /\ steps = 1
    /\ last_message = DISCOVERY_COMPLETE
    /\ discovered_companies = <<>>
    /\ research_log = <<>>

\* C9: after an error marker the next transition is to End, and it invokes no
\* agent, writes nothing to the sink and leaves the cursor alone.
C9_ErrorGoesToEnd ==
    [][ (pc \in {"after_discovery", "after_research"}
         /\ IsErrorMarker(last_message))
            => /\ pc' = "end"
               /\ research_log' = research_log
               /\ attempts' = attempts
               /\ csv' = csv
               /\ current_research_index' = current_research_index
               /\ discovered_companies' = discovered_companies
      ]_vars

\* C9 witness: a discovery error whose text holds the words of the completion
\* marker, with a record already registered, ended the workflow after one
\* step.
C9_Witness ==
    /\ pc = "end"
    /\ steps = 1
    /\ last_message = DISCOVERY_ERROR(<<"DISCOVERY", "COMPLETE">>)
    /\ Len(discovered_companies) > 0

\* C10: out of Research the workflow goes back to Research exactly when the
\* marker is RESEARCH_PROGRESS and cursor < Registry length, and to End
\* otherwise.
C10_ResearchEdge ==
    [][ (pc = "after_research")
            => /\ pc' \in {"research", "end"}
               /\ (pc' = "research")
                     <=> (last_message = RESEARCH_PROGRESS
                          /\ current_research_index
                                 < Len(discovered_companies))
      ]_vars

\* C10 witness: the research node ran twice and the workflow ended on a
\* RESEARCH_PROGRESS marker with the cursor at the Registry length.
C10_Witness ==
    /\ pc = "end"
    /\ steps = 3
    /\ last_message = RESEARCH_PROGRESS
    /\ current_research_index = Len(discovered_companies)

DiscoveryPcs == {"discovery", "discovery_loop", "discovery_invoke",
                 "discovery_check"}

\* C11: the workflow never goes back from Research (or from any later
\* position) to Discovery: the discovery node is entered only from START and
\* runs as the single first step of a run, and the research node is entered
\* only with discovery complete, out of Discovery only on DISCOVERY_COMPLETE.
C11_NoCycle ==
    [][ /\ (pc' = "discovery") => (pc = "idle" /\ steps' = 0)
        /\ (pc = "discovery") => steps' = 1
        /\ (pc \notin DiscoveryPcs \cup {"idle"}) => pc' \notin DiscoveryPcs
        /\ (pc' = "research")
               => /\ discovery_complete'
                  /\ pc \in {"after_discovery", "after_research"}
                  /\ (pc = "after_discovery")
                         => last_message = DISCOVERY_COMPLETE
      ]_vars

\* C11 witness: after Discovery and one research step the workflow is about
\* to run the research node again.
C11_Witness ==
    /\ pc = "research"
    /\ steps = 2
    /\ discovery_complete
    /\ last_message = RESEARCH_PROGRESS

\* C12: whatever the gaps between the calls of enhanced_rate_limit, a grant
\* comes at least MIN_REQUEST_INTERVAL after the grant before it.
C12_MinInterval ==
    [][ (grants >= 1 /\ grants' = grants + 1)
            => last_request_time' - last_request_time >= MIN_REQUEST_INTERVAL
      ]_vars

\* C12 witness: a call made inside the minimum interval was held back to
\* exactly MIN_REQUEST_INTERVAL after the grant before it.
C12_Witness ==
    /\ grants >= 2
    /\ Len(recent_grants) >= 2
    /\ burst_n = 1
    /\ recent_grants[Len(recent_grants)]
           - recent_grants[Len(recent_grants) - 1] = MIN_REQUEST_INTERVAL

\* C13: whatever the gaps between the calls, no window of 60 time units
\* (its two ends included) holds more than MAX_REQUESTS_PER_MINUTE grants.
C13_WindowCap ==
    /\ Len(recent_grants) <= MAX_REQUESTS_PER_MINUTE
    /\ \A i \in 1..Len(recent_grants) :
           last_request_time - recent_grants[i] <= 60

\* C13 witness: the counter reached the cap and the next call slept 60
\* before its grant, which is alone in its window.
C13_Witness ==
    /\ grants > MAX_REQUESTS_PER_MINUTE
    /\ request_count = 1
    /\ Len(recent_grants) = 1
    /\ burst_n > MAX_REQUESTS_PER_MINUTE

\* C14: in a burst of N back-to-back calls the last grant comes at least
\* (N-1)*3 after the first when N <= 25, and at least 60 more than that when
\* N > 25.
C14_BurstDuration ==
    burst_n >= 1 =>
        last_request_time - burst_first
            >= (burst_n - 1) * MIN_REQUEST_INTERVAL
               + (IF burst_n > MAX_REQUESTS_PER_MINUTE THEN 60 ELSE 0)

\* C14 witness: the 26th call of a burst that began with the first call of
\* the process was granted exactly 25*3 + 60 after the first grant.
C14_Witness ==
    /\ burst_n = MAX_REQUESTS_PER_MINUTE + 1
    /\ grants = burst_n
    /\ last_request_time - burst_first
           = MAX_REQUESTS_PER_MINUTE * MIN_REQUEST_INTERVAL + 60

\* C15: every agent invocation, of the discovery agent in each iteration of
\* the discovery loop and of the research agent, is preceded by its own
\* grant of enhanced_rate_limit: when an invocation starts, a grant was made
\* since the invocation before it.
C15_GrantBeforeEveryInvoke ==
    [][ (~InInvoke /\ InInvoke')
            => (grant_pending \/ last_request_time' # last_request_time)
      ]_vars

\* the candidate is one the Registry must refuse: blank, or offered when the
\* target is reached, or equal to a stored name after trimming and folding
Rejected(companies, target, name) ==
    \/ strip(name) = <<>>
    \/ GE(Len(companies), target)
    \/ \E i \in 1..Len(companies) : Folded(companies[i].name) = Folded(name)

\* the Registry after offering the candidates of a sequence one by one
RECURSIVE OfferAll(_, _, _)
OfferAll(companies, target, names) ==
    IF names = <<>> THEN companies
    ELSE OfferAll(add_discovered_company(companies, target,
                                         Head(names)).companies,
                  target, Tail(names))

\* C16: an add that is rejected (blank, duplicate, target reached) leaves the
\* Registry as it was and an accepted add appends one record with the trimmed
\* name at the end; with target 2 the candidates "A", " a ", "B" offered in
\* that order leave exactly the records "A", "B".
C16_RegistryIsAcceptedSequence ==
    /\ (TARGET_COMPANIES # None) =>
         \A c \in CandidateNames :
            add_discovered_company(discovered_companies, TARGET_COMPANIES,
                                   c).companies
              = IF Rejected(discovered_companies, TARGET_COMPANIES, c)
                THEN discovered_companies
                ELSE Append(discovered_companies,
                            [name |-> strip(c), detailed_report |-> ""])
    /\ OfferAll(<<>>, 2, << <<"A">>, <<" ", "a", " ">>, <<"B">> >>)
           = << [name |-> <<"A">>, detailed_report |-> ""],
                [name |-> <<"B">>, detailed_report |-> ""] >>

\* C16 witness: the discovery agent is running with target 2 and the Registry
\* is "A", "B"; the duplicate " a " is refused and so is everything else.
C16_Witness ==
    /\ pc = "discovery_invoke"
    /\ TARGET_COMPANIES = 2
    /\ discovered_companies = << [name |-> <<"A">>, detailed_report |-> ""],
                                 [name |-> <<"B">>, detailed_report |-> ""] >>
    /\ Rejected(discovered_companies, TARGET_COMPANIES, <<" ", "a", " ">>)

\* C17: a run performs at most recursion_limit node steps, and after the
\* last of them the workflow is at End or aborted by the ceiling, whatever
\* marker the node emitted and however many records remain.
C17_StepCeiling ==
    [][ /\ steps' <= recursion_limit
        /\ (steps = recursion_limit
            /\ pc \in {"after_discovery", "after_research"})
               => pc' \in {"end", "aborted"}
      ]_vars

\* C17 witness: with records still to research the run was aborted after
\* recursion_limit steps, the Discovery step and recursion_limit - 1
\* research steps.
C17_Witness ==
    /\ pc = "aborted"
    /\ steps = recursion_limit
    /\ current_research_index = recursion_limit - 1
    /\ current_research_index < Len(discovered_companies)

\* the step is a research step whose CSV write fails
WriteFails == pc = "research_invoke" /\ failed_writes' # failed_writes

\* C18: a failed CSV write does not abort research: in that step only the
\* report of the record under the cursor changes in the Registry, the cursor
\* advances by one and RESEARCH_PROGRESS is emitted; the report stays on the
\* record afterwards, and with records left the workflow goes on to research
\* them.
C18_WriteFailureGoesOn ==
    [][ /\ WriteFails
            => /\ current_research_index' = current_research_index + 1
               /\ last_message' = RESEARCH_PROGRESS
               /\ pc' = "after_research"
               /\ csv' = csv
               /\ discovered_companies' =
                      [discovered_companies EXCEPT
                          ![current_research_index + 1].detailed_report =
                              discovered_companies'
                                  [current_research_index + 1].detailed_report]
        /\ (pc \notin {"idle", "end", "aborted"})
            => \A i \in failed_writes :
                   /\ i + 1 <= Len(discovered_companies')
                   /\ discovered_companies'[i + 1].detailed_report
                          = discovered_companies[i + 1].detailed_report
        /\ (pc = "after_research"
            /\ last_message = RESEARCH_PROGRESS
            /\ (current_research_index - 1) \in failed_writes
            /\ current_research_index < Len(discovered_companies))
            => pc' = "research"
      ]_vars

\* C18 witness: the write of the first record failed, its report is still
\* attached, and the second record has since been researched and written.
C18_Witness ==
    /\ pc = "after_research"
    /\ failed_writes = {0}
    /\ current_research_index = 2
    /\ discovered_companies[1].detailed_report = "R1"
    /\ Len(Rows) = 1
    /\ Rows[1] = RowOf(discovered_companies[2])

\* C19: in every state of a run, every record at an index below the cursor
\* has its row in the sink.
C19_BelowCursorPersisted ==
    InRun =>
        \A i \in 1..current_research_index :
            \E n \in 1..Len(Rows) : Rows[n] = RowOf(discovered_companies[i])

\* C20: whenever discovery_node emits DISCOVERY_COMPLETE, the Registry has
\* reached the target or exactly max_attempts agent invocations were made;
\* with an unlimited target only the exhausted budget ends the loop.
C20_ExitOnlyOnTargetOrBudget ==
    [][ (pc \in DiscoveryPcs
         /\ pc' = "after_discovery"
         /\ last_message' = DISCOVERY_COMPLETE)
            => \/ GE(Len(discovered_companies), TARGET_COMPANIES)
               \/ attempts = max_attempts
      ]_vars

\* the step is the end of a research step in which nothing raised: the agent
\* returned and the CSV write succeeded
ResearchedOne ==
    /\ pc = "research_invoke"
    /\ pc' = "after_research"
    /\ last_message' = RESEARCH_PROGRESS
    /\ failed_writes' = failed_writes

\* C21: a research step with a pending record in which nothing raises invokes
\* the research agent once, for the record at the cursor, attaches the
\* returned text to that record and to no other, appends exactly one row,
\* the row of that record with the same text, and advances the cursor by
\* exactly one.
C21_OneRecordPerStep ==
    [][ ResearchedOne
            => LET k == current_research_index
               IN  /\ k < Len(discovered_companies)
                   /\ research_log[Len(research_log)] = k
                   /\ Cardinality({i \in 1..Len(research_log) :
                                       research_log[i] = k}) = 1
                   /\ research_log' = research_log
                   /\ current_research_index' = k + 1
                   /\ discovered_companies' =
                          [discovered_companies EXCEPT
                              ![k + 1].detailed_report =
                                  discovered_companies'[k + 1].detailed_report]
                   /\ csv' = Append(csv, RowOf(discovered_companies'[k + 1]))
      ]_vars

\* C21 witness: the second research step of a run attached the report "R1"
\* to the second record and wrote it as the second row.
C21_Witness ==
    /\ pc = "after_research"
    /\ last_message = RESEARCH_PROGRESS
    /\ failed_writes = {}
    /\ current_research_index = 2
    /\ research_log = <<0, 1>>
    /\ discovered_companies[2].detailed_report = "R1"
    /\ Len(Rows) = 2
    /\ Rows[2] = <<discovered_companies[2].name, "R1">>

\* C22: research_node invoked with the cursor at the Registry length only
\* emits ALL_RESEARCH_COMPLETE: no agent call, no row written, and the
\* cursor, the Registry and the rate-limiter state stay as they were.
C22_NothingPendingChangesNothing ==
    [][ (pc = "research"
         /\ current_research_index >= Len(discovered_companies))
            => /\ last_message' = ALL_RESEARCH_COMPLETE
               /\ pc' = "after_research"
               /\ research_log' = research_log
               /\ csv' = csv
               /\ current_research_index' = current_research_index
               /\ discovered_companies' = discovered_companies
               /\ last_request_time' = last_request_time
               /\ request_count' = request_count
      ]_vars

ResearchPcs == {"research", "research_invoke", "after_research"}

\* the names of the records, in order
Names(companies) == [i \in 1..Len(companies) |-> companies[i].name]

\* C23: once the workflow has entered Research, the Registry keeps its
\* length and the names of its records until End: the research phase
\* creates no record and deletes none.
C23_NoRecordsAfterDiscovery ==
    [][ (pc \in ResearchPcs)
            => Names(discovered_companies') = Names(discovered_companies)
      ]_vars

\* C24: every record at an index at or above the cursor has an empty
\* detailed_report, and a record's detailed_report changes only in the
\* research step whose cursor points at it, which moves the cursor past it:
\* at most once in a run.
C24_ReportsOnlyBelowCursor ==
    [][ /\ \A i \in 1..Len(discovered_companies') :
               i > current_research_index'
                   => discovered_companies'[i].detailed_report = ""
        /\ \A i \in 1..Len(discovered_companies) :
               (i <= Len(discovered_companies')
                /\ discovered_companies'[i].detailed_report
                       # discovered_companies[i].detailed_report)
                   => /\ pc = "research_invoke"
                      /\ i = current_research_index + 1
                      /\ current_research_index' = current_research_index + 1
      ]_vars

\* C24 witness: the first of two records has its report, the cursor stands
\* on the second, whose report is empty.
C24_Witness ==
    /\ pc = "after_research"
    /\ current_research_index = 1
    /\ Len(discovered_companies) = 2
    /\ discovered_companies[1].detailed_report = "R1"
    /\ discovered_companies[2].detailed_report = ""

\* the candidate is empty or made of blanks only
Blank(name) == \A i \in 1..Len(name) : name[i] = " "

\* C25: in every Registry state, also a full one, an add with an empty or
\* all-blank name is refused with the validation text and changes nothing;
\* every stored name is non-empty and has no blank at either end.
C25_BlankRejected ==
    /\ (TARGET_COMPANIES # None) =>
         \A c \in CandidateNames :
            Blank(c) =>
               add_discovered_company(discovered_companies, TARGET_COMPANIES,
                                      c)
                 = [companies |-> discovered_companies,
                    result |-> NameRequired]
    /\ \A i \in 1..Len(discovered_companies) :
         LET name == discovered_companies[i].name
         IN  /\ name # <<>>
             /\ Head(name) # " "
             /\ name[Len(name)] # " "

\* C25 witness: the discovery agent is running with the Registry at its
\* target of two, and a name of one blank is refused as a missing name.
C25_Witness ==
    /\ pc = "discovery_invoke"
    /\ TARGET_COMPANIES = 2
    /\ Len(discovered_companies) = 2
    /\ add_discovered_company(discovered_companies, TARGET_COMPANIES,
                              <<" ">>).result = NameRequired

\* the candidate's name equals a stored name after trimming and folding
SameAsStored(companies, name) ==
    \E i \in 1..Len(companies) : Folded(companies[i].name) = Folded(name)

\* C26: in every Registry state, a full one included, an add of a non-blank
\* candidate whose name equals a stored name after trimming and case-folding
\* is refused with the "already exists" text, and the "Target reached" text
\* is returned only for candidates that are not duplicates.
C26_DuplicateSignalFirst ==
    (TARGET_COMPANIES # None) =>
        \A c \in CandidateNames :
            LET result == add_discovered_company(discovered_companies,
                                                 TARGET_COMPANIES, c).result
            IN  /\ (~Blank(c) /\ SameAsStored(discovered_companies, c))
                       => result = AlreadyExists
                /\ (result = TargetReached)
                       => ~SameAsStored(discovered_companies, c)

\* C27: a call made more than 60 after request_count was last reset resets
\* it before counting; every grant adds one to the counter (reset or not)
\* and sets last_request_time to the grant time; the counter never passes
\* MAX_REQUESTS_PER_MINUTE.
C27_CounterWindow ==
    [][ (grants' = grants + 1)
            => /\ (call_time' - count_reset_at > 60) => request_count' = 1
               /\ request_count' \in {1, request_count + 1}
               /\ last_request_time' = now'
               /\ request_count' <= MAX_REQUESTS_PER_MINUTE
      ]_vars

\* the run has stopped, and in it no external call raised and no write
\* failed
StoppedClean ==
    /\ pc \in {"end", "aborted"}
    /\ ~IsErrorMarker(last_message)
    /\ failed_writes = {}

\* C28: when a run in which nothing raised and no write failed has stopped,
\* every record that Discovery put in the Registry has been researched and
\* has its row in the sink, whatever the size of the Registry.
C28_AllResearchedBeforeStop ==
    StoppedClean =>
        \A i \in 1..discovery_size :
            /\ i <= current_research_index
            /\ \E n \in 1..Len(Rows) : Rows[n] = RowOf(discovered_companies[i])

\* C29: in a run driven by the graph, research_node is entered only with
\* cursor < Registry length, the marker ALL_RESEARCH_COMPLETE is never
\* emitted, and a research phase that ends without an error marker ends on a
\* RESEARCH_PROGRESS marker with the cursor at the Registry length.
C29_NeverAllResearchComplete ==
    /\ (pc = "research")
           => current_research_index < Len(discovered_companies)
    /\ last_message # ALL_RESEARCH_COMPLETE
    /\ (pc = "end" /\ steps >= 2 /\ ~IsErrorMarker(last_message))
           => /\ last_message = RESEARCH_PROGRESS
              /\ current_research_index >= Len(discovered_companies)

\* C29 witness: the single record was researched in the second step and the
\* workflow ended on RESEARCH_PROGRESS with the cursor at the length.
C29_Witness ==
    /\ pc = "end"
    /\ steps = 2
    /\ Len(discovered_companies) = 1
    /\ current_research_index = 1
    /\ last_message = RESEARCH_PROGRESS
    /\ research_log = <<0>>

\* C30: starting a run empties the Registry, sets the cursor to 0 and leaves
\* the header row alone in the sink, whatever the run before left there and
\* however it ended, and it does not touch last_request_time and
\* request_count.
C30_NewRunResets ==
    [][ (pc = "idle" /\ pc' # "idle")
            => /\ discovered_companies' = <<>>
               /\ current_research_index' = 0
               /\ discovery_complete' = FALSE
               /\ csv' = <<Header>>
               /\ last_request_time' = last_request_time
               /\ request_count' = request_count
               /\ now' = now
      ]_vars

\* C30 witness: a second run has just started after a run that made at
\* least two grants: the sink is back to the header and the rate limiter
\* still holds the first run's count and timestamp.
C30_Witness ==
    /\ runs = 2
    /\ pc = "discovery"
    /\ steps = 0
    /\ discovered_companies = <<>>
    /\ current_research_index = 0
    /\ csv = <<Header>>
    /\ request_count >= 2
    /\ last_request_time > StartClock

\* the analysis text is the one stored for a row whose analysis failed
IsFailureText(text) ==
    Len(text) >= 2 /\ SubSeq(text, 1, 2) = <<"Analysis", "failed">>

\* C31: process_csv_batch calls analyze_single_company for the rows in row
\* order, each once; a row whose analysis raised holds an "Analysis failed"
\* text; an iteration always goes on to the next row whatever the analysis
\* and the progress save did; the call never ends by an exception out of the
\* loop, and it returns the frame only after every row was analysed, through
\* the final save.
C31_BatchAnalysesEveryRow ==
    [][ /\ analysed' = [i \in 1..row_index' |-> i - 1]
        /\ row_index' <= Len(df')
        /\ \A i \in failed_rows' : IsFailureText(df'[i + 1].analysis)
        /\ (batch_pc = "loop" /\ row_index < Len(df))
               => /\ batch_pc' = "loop"
                  /\ row_index' = row_index + 1
                  /\ \A i \in 1..Len(df) :
                         i # row_index + 1 => df'[i] = df[i]
        /\ batch_pc' # "raised"
        /\ (batch_pc' = "returned_df")
               => /\ batch_pc \in {"loop", "returned_df"}
                  /\ row_index' = Len(df')
      ]_vars

\* C31 witness: of three rows the analysis of the second raised; the call
\* returned the frame with the failure text in row two, a result in row
\* three, and the final save wrote it.
C31_Witness ==
    /\ batch_pc = "returned_df"
    /\ Len(df) = 3
    /\ failed_rows = {1}
    /\ analysed = <<0, 1, 2>>
    /\ df[2].analysis = <<"Analysis", "failed", "timeout">>
    /\ df[3].analysis = <<"High", "potential">>
    /\ out_file = <<df>>

====
